---- MODULE Spec2Model ----
(***************************************************************************)
(* Model of shapeguard's shape matcher (src/shapeguard/spec.py) and of the *)
(* diagnostics it raises (src/shapeguard/errors.py).                       *)
(*                                                                         *)
(* Encoding of the Python values:                                          *)
(*   - a specification element is a record [t, v]: t is its type ("int",   *)
(*     "Dim", "None", "Ellipsis", or "str" for an element of a type the    *)
(*     matcher does not accept), v the integer or the identity of the Dim; *)
(*   - an optional attribute is a sequence: <<>> is None, <<x>> is x;      *)
(*   - the binding store is a sequence of [dim, value, source] entries in  *)
(*     first-bound order (a dict keyed by the Dim object's identity);      *)
(*   - the label f"{source}[{index}]" is the pair <<source, index>>;       *)
(*   - a call's outcome is [exc, ctx, visited, pre]: the exception raised  *)
(*     (optional), the store afterwards, and two history fields: the       *)
(*     (index, spec element) pairs handed to _match_dim, and the store as  *)
(*     it was before the last of them.                                     *)
(* Indices are 0-based, as in the source; Seq access adds one.             *)
(***************************************************************************)
EXTENDS Integers, Sequences, FiniteSets, TLC

VARIABLES ctx, last, calls

vars == <<ctx, last, calls>>

\* ---- bounds ----
MaxRank == 3
MaxSpecLen == 3
MaxCalls == 2

\* ---- values the inputs are drawn from ----
DimValues == {1, 2}
Dims == {1, 2}
Sources == {"x", "y"}

None == <<>>
Some(x) == <<x>>

IntElem(n) == [t |-> "int", v |-> n]
DimElem(d) == [t |-> "Dim", v |-> d]
NoneElem == [t |-> "None", v |-> 0]
EllipsisElem == [t |-> "Ellipsis", v |-> 0]
StrElem == [t |-> "str", v |-> 0]

\* ---- shapeguard.core (not among the sources): Dim, UnificationContext ----
DimName(d) == IF d % 2 = 1 THEN "n" ELSE "m"

UnificationContext == <<>>

Bound(c, dim) == \E k \in 1..Len(c) : c[k].dim = dim

Lookup(c, dim) == c[CHOOSE k \in 1..Len(c) : c[k].dim = dim]

format_bindings(c) ==
    IF c = <<>>
    THEN [marker |-> TRUE, pairs |-> <<>>]
    ELSE [marker |-> FALSE,
          pairs |-> [k \in 1..Len(c) |-> [name |-> DimName(c[k].dim), value |-> c[k].value]]]

\* ---- errors.py ----
NoArgs ==
    [dim |-> 0, index |-> 0, expected_value |-> 0, actual_value |-> 0,
     expected_source |-> None, actual_source |-> None,
     expected_rank |-> 0, at_least |-> FALSE, actual_rank |-> 0]

ShapeGuardError(type, expected, actual, reason, bindings, args) ==
    [type |-> type, expected |-> expected, actual |-> actual,
     reason |-> reason, bindings |-> bindings, args |-> args]

UnificationError(dim, expected_value, expected_source, actual_value, actual_source) ==
    ShapeGuardError("UnificationError", None, None,
        Some("dimension bound to expected_value from expected_source, but got actual_value from actual_source"),
        None,
        [NoArgs EXCEPT !.dim = dim, !.expected_value = expected_value,
                       !.expected_source = Some(expected_source),
                       !.actual_value = actual_value,
                       !.actual_source = Some(actual_source)])

RankMismatchError(expected_rank, at_least, actual_rank, expected_shape, actual_shape, bindings) ==
    ShapeGuardError("RankMismatchError", Some(expected_shape), Some(actual_shape),
        Some("expected rank expected_rank, got rank actual_rank"),
        Some(bindings),
        [NoArgs EXCEPT !.expected_rank = expected_rank, !.at_least = at_least,
                       !.actual_rank = actual_rank])

DimensionMismatchError(dim_index, expected_value, actual_value, expected_shape, actual_shape, bindings) ==
    ShapeGuardError("DimensionMismatchError", Some(expected_shape), Some(actual_shape),
        Some("dim[dim_index] expected expected_value, got actual_value"),
        Some(bindings),
        [NoArgs EXCEPT !.index = dim_index, !.expected_value = expected_value,
                       !.actual_value = actual_value])

\* Python's built-in exceptions carry none of the diagnostic attributes.
BuiltinError(type, index) ==
    ShapeGuardError(type, None, None, None, None, [NoArgs EXCEPT !.index = index])

\* ---- UnificationContext.bind (shapeguard.core) ----
bind(c, dim, value, source) ==
    IF Bound(c, dim)
    THEN IF Lookup(c, dim).value # value
         THEN [exc |-> Some(UnificationError(dim, Lookup(c, dim).value,
                                             Lookup(c, dim).source, value, source)),
               ctx |-> c]
         ELSE [exc |-> None, ctx |-> c]
    ELSE [exc |-> None,
          ctx |-> Append(c, [dim |-> dim, value |-> value, source |-> source])]

\* ---- spec.py ----
IsEllipsis(s) == s.t = "Ellipsis"

_has_ellipsis(spec) == \E k \in 1..Len(spec) : IsEllipsis(spec[k])

_filter_ellipsis(items) == SelectSeq(items, LAMBDA s : ~IsEllipsis(s))

RECURSIVE Indices(_, _)
\* [i for i, s in enumerate(spec) if <s is an ellipsis>], 0-based, ascending
Indices(spec, k) ==
    IF k > Len(spec) THEN <<>>
    ELSE (IF IsEllipsis(spec[k]) THEN <<k - 1>> ELSE <<>>) \o Indices(spec, k + 1)

\* as _split_ellipsis_spec, without the test for a second ellipsis
_split_ellipsis_spec_first(spec) ==
    LET ellipsis_indices == Indices(spec, 1)
    IN  IF ellipsis_indices = <<>>
        THEN [exc |-> None, before |-> _filter_ellipsis(spec), after |-> <<>>]
        ELSE LET idx == ellipsis_indices[1]
             IN  [exc |-> None,
                  before |-> _filter_ellipsis(SubSeq(spec, 1, idx)),
                  after |-> _filter_ellipsis(SubSeq(spec, idx + 2, Len(spec)))]

_split_ellipsis_spec(spec) ==
    LET ellipsis_indices == Indices(spec, 1)
    IN  IF Len(ellipsis_indices) > 1
        THEN [exc |-> Some(BuiltinError("ValueError", 0)), before |-> <<>>, after |-> <<>>]
        ELSE IF ellipsis_indices = <<>>
        THEN [exc |-> None, before |-> _filter_ellipsis(spec), after |-> <<>>]
        ELSE LET idx == ellipsis_indices[1]
             IN  [exc |-> None,
                  before |-> _filter_ellipsis(SubSeq(spec, 1, idx)),
                  after |-> _filter_ellipsis(SubSeq(spec, idx + 2, Len(spec)))]

dim_source(source, index) == <<source, index>>

\* the store with dim set to (value, source), whatever it held for dim
Assign(c, dim, value, source) ==
    IF Bound(c, dim)
    THEN [k \in 1..Len(c) |->
            IF c[k].dim = dim THEN [dim |-> dim, value |-> value, source |-> source] ELSE c[k]]
    ELSE Append(c, [dim |-> dim, value |-> value, source |-> source])

\* as _match_dim, but a symbolic dimension that is already bound is not unified
_match_dim_unchecked(actual_dim, spec_dim, index, actual_shape, spec, c, source) ==
    IF spec_dim.t = "None"
    THEN [exc |-> None, ctx |-> c]
    ELSE IF spec_dim.t = "Dim"
    THEN IF Bound(c, spec_dim.v)
         THEN [exc |-> None, ctx |-> c]
         ELSE bind(c, spec_dim.v, actual_dim, dim_source(source, index))
    ELSE IF spec_dim.t = "int"
    THEN IF actual_dim # spec_dim.v
         THEN [exc |-> Some(DimensionMismatchError(index, spec_dim.v, actual_dim,
                                                   spec, actual_shape, format_bindings(c))),
               ctx |-> c]
         ELSE [exc |-> None, ctx |-> c]
    ELSE [exc |-> Some(BuiltinError("TypeError", index)), ctx |-> c]

\* as _match_dim, but a symbolic dimension is written to the store directly
_match_dim_overwrite(actual_dim, spec_dim, index, actual_shape, spec, c, source) ==
    IF spec_dim.t = "None"
    THEN [exc |-> None, ctx |-> c]
    ELSE IF spec_dim.t = "Dim"
    THEN [exc |-> None, ctx |-> Assign(c, spec_dim.v, actual_dim, dim_source(source, index))]
    ELSE IF spec_dim.t = "int"
    THEN IF actual_dim # spec_dim.v
         THEN [exc |-> Some(DimensionMismatchError(index, spec_dim.v, actual_dim,
                                                   spec, actual_shape, format_bindings(c))),
               ctx |-> c]
         ELSE [exc |-> None, ctx |-> c]
    ELSE [exc |-> Some(BuiltinError("TypeError", index)), ctx |-> c]

_match_dim(actual_dim, spec_dim, index, actual_shape, spec, c, source) ==
    IF spec_dim.t = "None"
    THEN [exc |-> None, ctx |-> c]
    ELSE IF spec_dim.t = "Dim"
    THEN bind(c, spec_dim.v, actual_dim, dim_source(source, index))
    ELSE IF spec_dim.t = "int"
    THEN IF actual_dim # spec_dim.v
         THEN [exc |-> Some(DimensionMismatchError(index, spec_dim.v, actual_dim,
                                                   spec, actual_shape, format_bindings(c))),
               ctx |-> c]
         ELSE [exc |-> None, ctx |-> c]
    ELSE [exc |-> Some(BuiltinError("TypeError", index)), ctx |-> c]

required_dims(before, after) == Len(before) + Len(after)

\* as rank_too_small, with the comparison off by one
rank_too_small_inclusive(actual, before, after) == Len(actual) <= required_dims(before, after)

rank_too_small(actual, before, after) == Len(actual) < required_dims(before, after)

\* as rank_differs, but only a shape that is too short is refused
rank_differs_shorter(actual, spec) == Len(actual) < Len(spec)

rank_differs(actual, spec) == Len(actual) # Len(spec)

\* as offset, one position too far to the left
offset_off_by_one(actual, after) == Len(actual) - Len(after) - 1

offset(actual, after) == Len(actual) - Len(after)

\* Python's tuple indexing: a negative index counts from the end, an index
\* outside the tuple raises IndexError.
InRange(actual, i) == -Len(actual) <= i /\ i < Len(actual)

At(actual, i) == IF i < 0 THEN actual[Len(actual) + i + 1] ELSE actual[i + 1]

RECURSIVE Iterate(_, _, _, _, _, _, _)
\* One pass of "for i, spec_dim in enumerate(dims)" from element k (1-based) on:
\* _match_dim(actual[off + i], spec_dim, off + i, actual, spec, ctx, source).
\* st is the outcome so far; an exception ends the loop.
Iterate(dims, k, off, actual, spec, st, source) ==
    IF k > Len(dims) \/ st.exc # None
    THEN st
    ELSE LET actual_idx == off + (k - 1)
         IN  IF ~InRange(actual, actual_idx)
             THEN [st EXCEPT !.exc = Some(BuiltinError("IndexError", actual_idx))]
             ELSE LET r == _match_dim(At(actual, actual_idx), dims[k], actual_idx,
                                      actual, spec, st.ctx, source)
                  IN  Iterate(dims, k + 1, off, actual, spec,
                              [exc |-> r.exc, ctx |-> r.ctx,
                               visited |-> Append(st.visited,
                                                  [index |-> actual_idx, spec_dim |-> dims[k]]),
                               pre |-> st.ctx],
                              source)

\* as MatchDims, but on a copy of the store that is dropped when an element fails
MatchDims_on_copy(dims, off, actual, spec, st, source) ==
    LET r == Iterate(dims, 1, off, actual, spec, st, source)
    IN  IF r.exc # None /\ st.exc = None THEN [r EXCEPT !.ctx = st.ctx] ELSE r

\* The loops of match_shape work on the caller's store itself.
MatchDims(dims, off, actual, spec, st, source) ==
    Iterate(dims, 1, off, actual, spec, st, source)

Entry(c) == [exc |-> None, ctx |-> c, visited |-> <<>>, pre |-> c]

Raise(c, e) == [exc |-> Some(e), ctx |-> c, visited |-> <<>>, pre |-> c]

match_shape(actual, spec, c, source) ==
    IF _has_ellipsis(spec)
    THEN LET parts == _split_ellipsis_spec(spec)
             before == parts.before
             after == parts.after
         IN  IF parts.exc # None
             THEN Raise(c, parts.exc[1])
             ELSE IF rank_too_small(actual, before, after)
             THEN Raise(c, RankMismatchError(required_dims(before, after), TRUE, Len(actual),
                                             spec, actual, format_bindings(c)))
             ELSE MatchDims(after, offset(actual, after), actual, spec,
                            MatchDims(before, 0, actual, spec, Entry(c), source),
                            source)
    ELSE IF rank_differs(actual, spec)
    THEN Raise(c, RankMismatchError(Len(spec), FALSE, Len(actual),
                                    spec, actual, format_bindings(c)))
    ELSE MatchDims(_filter_ellipsis(spec), 0, actual, spec, Entry(c), source)

\* ---- inputs ----
SeqsUpTo(S, n) == UNION {[1..k -> S] : k \in 0..n}

Shapes == SeqsUpTo(DimValues, MaxRank)

\* elements of the declared ShapeSpec type, over one symbolic dimension
ValidElems == {IntElem(1), DimElem(1), NoneElem, EllipsisElem}

Specs == SeqsUpTo(ValidElems, MaxSpecLen)

\* specifications that may also hold an element of a type outside ShapeSpec
LooseSpecs == SeqsUpTo(ValidElems \cup {StrElem}, MaxSpecLen)

\* the checks of a validation session: two-axis shapes against one- and
\* two-element specifications over two symbolic dimensions
SessionShapes == [1..2 -> DimValues]

SessionElems == {IntElem(1)} \cup {DimElem(d) : d \in Dims}

SessionSpecs == [1..1 -> SessionElems] \cup [1..2 -> SessionElems]

SessionSource == "x"

\* ---- state machine ----
Init ==
    /\ ctx = UnificationContext
    /\ last = None
    /\ calls = <<>>

Call(actual, spec, source) ==
    LET res == match_shape(actual, spec, ctx, source)
    IN  /\ ctx' = res.ctx
        /\ last' = Some([actual |-> actual, spec |-> spec, source |-> source,
                         entry |-> ctx, res |-> res])

\* match_shape(actual, spec, ctx, source) on the shared store
MatchShape ==
    /\ last = None
    /\ \E actual \in Shapes, spec \in Specs, source \in Sources : Call(actual, spec, source)
    /\ UNCHANGED calls

\* the same call with a specification nothing has validated
MatchShapeLoose ==
    /\ last = None
    /\ \E actual \in Shapes, spec \in LooseSpecs, source \in Sources : Call(actual, spec, source)
    /\ UNCHANGED calls

\* the caller has seen the outcome (return or exception) and goes on
Returned ==
    /\ last # None
    /\ last' = None
    /\ UNCHANGED <<ctx, calls>>

\* one more check of a validation session: the call is made on the session's
\* store and recorded, with whether it succeeded
SessionCheck ==
    /\ Len(calls) < MaxCalls
    /\ \E actual \in SessionShapes, spec \in SessionSpecs :
          LET res == match_shape(actual, spec, ctx, SessionSource)
          IN  /\ ctx' = res.ctx
              /\ calls' = Append(calls, [actual |-> actual, spec |-> spec,
                                         ok |-> res.exc = None])
    /\ UNCHANGED last

Next == MatchShape \/ Returned

Spec == Init /\ [][Next]_vars

NextLoose == MatchShapeLoose \/ Returned

SpecLoose == Init /\ [][NextLoose]_vars

NextSession == SessionCheck

SpecSession == Init /\ [][NextSession]_vars

\* ---- what the claims speak of ----
Call1 == last[1]

ExcType(res) == IF res.exc = None THEN "none" ELSE res.exc[1].type

Diagnostics == {"RankMismatchError", "DimensionMismatchError", "UnificationError"}

IsPrefix(a, b) == Len(a) <= Len(b) /\ SubSeq(b, 1, Len(a)) = a

EllipsisPositions(spec) == {k \in 1..Len(spec) : spec[k].t = "Ellipsis"}

EllipsisAt(spec) == CHOOSE k \in EllipsisPositions(spec) : TRUE

Leading(spec) == SubSeq(spec, 1, EllipsisAt(spec) - 1)

Trailing(spec) == SubSeq(spec, EllipsisAt(spec) + 1, Len(spec))

\* the (index, element) pairs a specification with one ellipsis pairs up in a
\* shape of rank n: the leading ones from the start, the trailing ones from the end
Pairing(spec, n) ==
    [k \in 1..Len(Leading(spec)) |-> [index |-> k - 1, spec_dim |-> Leading(spec)[k]]]
    \o [k \in 1..Len(Trailing(spec)) |->
          [index |-> n - Len(Trailing(spec)) + (k - 1), spec_dim |-> Trailing(spec)[k]]]

\* the positions the ellipsis absorbs
Absorbed(spec, n) == {i \in 0..(n - 1) : Len(Leading(spec)) <= i /\ i < n - Len(Trailing(spec))}

Indexes(visited) == {visited[k].index : k \in 1..Len(visited)}

\* the bindings a call added to the store
Added(call) == SubSeq(call.res.ctx, Len(call.entry) + 1, Len(call.res.ctx))

\* C1: a symbolic dimension bound before a call keeps its value (and its place
\* and source) through the call, whether the call succeeds or fails; and a
\* call that observes another value for it fails with a unification conflict
\* whose expected value is the bound one and whose actual value is the
\* observed one.
C1_BoundValueKept ==
    last # None =>
        LET call == Call1
            res == call.res
        IN  /\ IsPrefix(call.entry, ctx)
            /\ \A k \in 1..Len(res.visited) :
                  LET v == res.visited[k]
                      seen == call.actual[v.index + 1]
                  IN  (v.spec_dim.t = "Dim" /\ Bound(call.entry, v.spec_dim.v)
                         /\ Lookup(call.entry, v.spec_dim.v).value # seen)
                      => /\ ExcType(res) = "UnificationError"
                         /\ res.exc[1].args.dim = v.spec_dim.v
                         /\ res.exc[1].args.expected_value = Lookup(call.entry, v.spec_dim.v).value
                         /\ res.exc[1].args.actual_value = seen
                         /\ Lookup(ctx, v.spec_dim.v) = Lookup(call.entry, v.spec_dim.v)

C1_Witness ==
    /\ last # None
    /\ ExcType(Call1.res) = "UnificationError"
    /\ Call1.entry # <<>>
    /\ Call1.entry[1].source[1] # Call1.source
    /\ Call1.res.exc[1].args.expected_value = 1
    /\ Call1.res.exc[1].args.actual_value = 2

\* C2: when a call fails at an element with a dimension mismatch or a
\* unification conflict, the store is the one the failing element found: it
\* still starts with the store of the call's entry and holds the binding of
\* every symbolic element processed before the failing one.
C2_FailureKeepsEarlierBindings ==
    (last # None /\ ExcType(Call1.res) \in {"DimensionMismatchError", "UnificationError"}) =>
        LET call == Call1
            res == call.res
        IN  /\ res.visited # <<>>
            /\ ctx = res.pre
            /\ IsPrefix(call.entry, ctx)
            /\ \A k \in 1..(Len(res.visited) - 1) :
                  LET v == res.visited[k]
                  IN  v.spec_dim.t = "Dim" =>
                        /\ Bound(ctx, v.spec_dim.v)
                        /\ Lookup(ctx, v.spec_dim.v).value = call.actual[v.index + 1]

C2_Witness ==
    /\ last # None
    /\ ExcType(Call1.res) \in {"DimensionMismatchError", "UnificationError"}
    /\ Call1.entry = <<>>
    /\ Len(Call1.res.visited) > 1
    /\ ctx # <<>>

\* C3: with one ellipsis and a shape of sufficient rank, the elements handed
\* to _match_dim are, in order, the leading ones at their own index and the
\* trailing ones at len(actual) - len(after) + i (all of them when the call
\* succeeds); a dimension mismatch reports that index; a binding the call adds
\* is labelled with it; and no absorbed position is compared or bound, nor
\* does its value change the outcome.
C3_EllipsisAlignment ==
    (/\ last # None
     /\ Cardinality(EllipsisPositions(Call1.spec)) = 1
     /\ Len(Call1.actual) >= Len(Call1.spec) - 1) =>
        LET call == Call1
            res == call.res
            n == Len(call.actual)
            pairs == Pairing(call.spec, n)
            absorbed == Absorbed(call.spec, n)
            added == Added(call)
        IN  /\ IsPrefix(res.visited, pairs)
            /\ res.exc = None => res.visited = pairs
            /\ Indexes(res.visited) \cap absorbed = {}
            /\ ExcType(res) = "DimensionMismatchError" =>
                  LET v == res.visited[Len(res.visited)]
                  IN  /\ res.exc[1].args.index = v.index
                      /\ res.exc[1].args.expected_value = v.spec_dim.v
                      /\ res.exc[1].args.actual_value = call.actual[v.index + 1]
            /\ \A k \in 1..Len(added) :
                  LET b == added[k]
                  IN  /\ b.source[1] = call.source
                      /\ b.source[2] \notin absorbed
                      /\ b.value = call.actual[b.source[2] + 1]
                      /\ \E j \in 1..Len(pairs) :
                            pairs[j] = [index |-> b.source[2], spec_dim |-> DimElem(b.dim)]
            /\ \A i \in absorbed : \A w \in DimValues :
                  LET other == [call.actual EXCEPT ![i + 1] = w]
                      r == match_shape(other, call.spec, call.entry, call.source)
                  IN  r.ctx = res.ctx /\ ExcType(r) = ExcType(res)

C3_Witness ==
    /\ last # None
    /\ Call1.spec = <<DimElem(1), EllipsisElem, IntElem(1)>>
    /\ Call1.actual = <<2, 2, 1>>
    /\ Call1.entry = <<>>
    /\ Call1.res.exc = None
    /\ ctx = <<[dim |-> 1, value |-> 2, source |-> <<Call1.source, 0>>]>>

\* C4: with one ellipsis, the call fails with a rank mismatch exactly when
\* len(actual) < len(before) + len(after), and the mismatch then reports
\* "at least len(before) + len(after)"; when the two are equal the ellipsis
\* absorbs nothing, the rank check passes, no position is matched twice, and a
\* call that succeeds has matched every position once.
C4_EllipsisRank ==
    (last # None /\ Cardinality(EllipsisPositions(Call1.spec)) = 1) =>
        LET call == Call1
            res == call.res
            n == Len(call.actual)
            need == Len(Leading(call.spec)) + Len(Trailing(call.spec))
        IN  /\ ExcType(res) = "RankMismatchError" <=> n < need
            /\ n < need =>
                  /\ res.exc[1].args.at_least
                  /\ res.exc[1].args.expected_rank = need
                  /\ res.exc[1].args.actual_rank = n
            /\ n = need =>
                  /\ Absorbed(call.spec, n) = {}
                  /\ Cardinality(Indexes(res.visited)) = Len(res.visited)
                  /\ res.exc = None =>
                        /\ Indexes(res.visited) = 0..(n - 1)
                        /\ \A k \in 1..Len(res.visited) :
                              res.visited[k] = Pairing(call.spec, n)[k]

C4_Witness ==
    /\ last # None
    /\ Call1.spec = <<DimElem(1), EllipsisElem, IntElem(1)>>
    /\ Len(Call1.actual) = 2
    /\ Call1.res.exc = None
    /\ Len(Call1.res.visited) = 2

\* C5: a shape of the wrong length (not len(spec) without an ellipsis, below
\* the required minimum with one) is refused with a rank mismatch before any
\* element is looked at, and the store is the one of the call's entry.
C5_RankFirst ==
    (/\ last # None
     /\ \/ /\ EllipsisPositions(Call1.spec) = {}
           /\ Len(Call1.actual) # Len(Call1.spec)
        \/ /\ Cardinality(EllipsisPositions(Call1.spec)) = 1
           /\ Len(Call1.actual) < Len(Call1.spec) - 1) =>
        /\ ExcType(Call1.res) = "RankMismatchError"
        /\ Call1.res.visited = <<>>
        /\ ctx = Call1.entry
        /\ Call1.res.exc[1].args.actual_rank = Len(Call1.actual)
        /\ EllipsisPositions(Call1.spec) = {} =>
              /\ ~Call1.res.exc[1].args.at_least
              /\ Call1.res.exc[1].args.expected_rank = Len(Call1.spec)

C5_Witness ==
    /\ last # None
    /\ Call1.spec = <<DimElem(1), IntElem(1)>>
    /\ Call1.actual = <<1, 2, 2>>
    /\ Call1.entry # <<>>
    /\ Call1.entry[1].value = 2
    /\ ExcType(Call1.res) = "RankMismatchError"

\* C6: when match_shape raises the error for an element of invalid type, no
\* element has been compared with its axis (no integer, no symbolic dimension
\* has been processed) and the store is the one of the call's entry.
C6_InvalidElementRejectedEagerly ==
    (last # None /\ ExcType(Call1.res) = "TypeError") =>
        /\ \A k \in 1..Len(Call1.res.visited) :
              Call1.res.visited[k].spec_dim.t \notin {"int", "Dim"}
        /\ ctx = Call1.entry

\* C7: a specification with two or more ellipsis elements is refused with the
\* usage error (ValueError), whatever the shape and the store: no element is
\* compared, no diagnostic is produced, and the store is unchanged.
C7_DoubleEllipsisRejected ==
    (last # None /\ Cardinality(EllipsisPositions(Call1.spec)) >= 2) =>
        /\ ExcType(Call1.res) = "ValueError"
        /\ Call1.res.visited = <<>>
        /\ ctx = Call1.entry

C7_Witness ==
    /\ last # None
    /\ Cardinality(EllipsisPositions(Call1.spec)) = 2
    /\ Len(Call1.spec) = 3
    /\ Call1.spec[2] = DimElem(1)
    /\ Call1.actual = <<1>>
    /\ Call1.entry # <<>>
    /\ ExcType(Call1.res) = "ValueError"

\* C8: every diagnostic a failing match raises (rank mismatch, dimension
\* mismatch, unification conflict) has its expected shape, actual shape,
\* reason and bindings snapshot populated, the snapshot being non-empty text
\* or the "no bindings" marker.
C8_DiagnosticComplete ==
    (last # None /\ ExcType(Call1.res) \in Diagnostics) =>
        LET e == Call1.res.exc[1]
        IN  /\ e.expected # None
            /\ e.actual # None
            /\ e.reason # None
            /\ e.bindings # None
            /\ e.bindings[1].marker \/ e.bindings[1].pairs # <<>>

\* C9: binding a bound dimension to its value again, from any source, succeeds
\* and leaves the store as it is; and a call that succeeded, made again on the
\* resulting store with the same shape and specification, succeeds and leaves
\* the store as it is.
C9_Idempotent ==
    /\ \A k \in 1..Len(ctx) : \A source \in Sources, i \in 0..MaxRank :
          LET r == bind(ctx, ctx[k].dim, ctx[k].value, dim_source(source, i))
          IN  r.exc = None /\ r.ctx = ctx
    /\ (last # None /\ Call1.res.exc = None) =>
          \A source \in Sources :
              LET again == match_shape(Call1.actual, Call1.spec, ctx, source)
              IN  again.exc = None /\ again.ctx = ctx

C9_Witness ==
    /\ last # None
    /\ Call1.res.exc = None
    /\ Call1.spec = <<DimElem(1), EllipsisElem, DimElem(1)>>
    /\ Call1.actual = <<2, 1, 2>>
    /\ Call1.entry = <<>>

\* ---- a validation session in another order ----
RECURSIVE RunAll(_, _, _)
\* the checks cs[order[1]], cs[order[2]], ... made one after the other, the
\* first on the store st.ctx; st.ok tells whether every check so far succeeded
RunAll(cs, order, st) ==
    IF order = <<>>
    THEN st
    ELSE LET res == match_shape(cs[Head(order)].actual, cs[Head(order)].spec, st.ctx, SessionSource)
         IN  RunAll(cs, Tail(order), [ok |-> st.ok /\ res.exc = None, ctx |-> res.ctx])

Orders(n) == {p \in [1..n -> 1..n] : {p[i] : i \in 1..n} = 1..n}

Values(c) == {<<c[k].dim, c[k].value>> : k \in 1..Len(c)}

AllOk == \A k \in 1..Len(calls) : calls[k].ok

\* C10: the checks of a session, made in any other order on an empty store,
\* all succeed exactly when they all succeeded in the session, and then bind
\* every symbolic dimension to the value the session bound it to.
C10_OrderIndependent ==
    \A order \in Orders(Len(calls)) :
        LET run == RunAll(calls, order, [ok |-> TRUE, ctx |-> UnificationContext])
        IN  /\ run.ok = AllOk
            /\ AllOk => Values(run.ctx) = Values(ctx)

C10_Witness ==
    /\ Len(calls) = 2
    /\ AllOk
    /\ calls[1].spec = <<DimElem(1), DimElem(2)>>
    /\ calls[2].spec = <<DimElem(2), DimElem(1)>>
    /\ calls[1].actual = <<2, 1>>
    /\ calls[2].actual = <<1, 2>>
    /\ Values(ctx) = {<<1, 2>>, <<2, 1>>}
====
